---- MODULE Spec2Model ----
(***************************************************************************)
(* The presence-and-delivery core of the chat backend: ChatGateway          *)
(* (src/src/chat.gateway.ts) over MessagesService (src/unnamed/part_001),   *)
(* UsersService (src/unnamed/part_005) and GroupsService.                   *)
(*                                                                         *)
(* Every handler is an async function: it runs atomically from one await    *)
(* to the next, and other handlers run in between.  Each action below is    *)
(* one such run; a collaborator's database effect is applied at the step    *)
(* where its await completes.                                               *)
(***************************************************************************)
EXTENDS Integers, Sequences, FiniteSets, TLC

\* ------------------------------------------------------------------ bounds
\* At most this many handlers (connect, disconnect, message) are between
\* their first await and their end at the same time.
MaxInFlight == 2
\* The most messages waiting for an absent user when a run starts.
MaxBacklog == 21

\* ------------------------------------------------------- program constants
maxConnectionsPerUser == 5
\* getPendingFor(userId, limit = 20)
PendingLimit == 20

\* ---------------------------------------------------------------- universe
Users == {"u1", "u2", "u3"}
\* handshake outcomes that are not a stored user
NoToken == "missing"
BadToken == "invalid"
Ghost == "ghost"
Unused == "unused"
NoGroup == "none"
\* the one stored group and its member list, in stored order
GroupId == "g1"
GroupMembers == <<"u1", "u2", "u3">>
\* a well-formed group id that names no stored group
LostGroup == "g0"

VARIABLES
  token,      \* socket id -> subject of the handshake token (fixed per run)
  connected,  \* ChatGateway.connected: userId -> list of SocketUser
  online,     \* users collection: userId -> persisted online flag
  messages,   \* messages collection, in createdAt order
  conn,       \* socket id -> state of its handleConnection run and transport
  disc,       \* socket id -> state of its handleDisconnect run
  task,       \* inbound message events: task id -> state of its handler run
  emitted,    \* message id -> the 'message' emits made for it, in order
  req         \* delete:message and get:conversation events: id -> state of the run

vars == <<token, connected, online, messages, conn, disc, task, emitted, req>>

Sockets == DOMAIN token
Tasks == DOMAIN task
Requests == DOMAIN req

\* ------------------------------------------------------------ the registry
SocketUser(s, u) == [socketId |-> s, userId |-> u]

\* this.connected.get(u) || []
Get(u) == IF u \in DOMAIN connected THEN connected[u] ELSE <<>>

\* this.connected.set(u, list)
MapSet(m, u, list) == [k \in (DOMAIN m) \cup {u} |-> IF k = u THEN list ELSE m[k]]

\* A removal that leaves the key in the map with an empty list.
MapEmptied(m, u) == [k \in DOMAIN m |-> IF k = u THEN <<>> ELSE m[k]]

\* this.connected.delete(u)
MapDelete(m, u) == [k \in (DOMAIN m) \ {u} |-> m[k]]

\* Array.from(this.connected.values()).flat().find(c => c.socketId === s)
Registered(s) == \E u \in DOMAIN connected : \E i \in 1..Len(connected[u]) : connected[u][i].socketId = s

FromUser(s) == (CHOOSE u \in DOMAIN connected : \E i \in 1..Len(connected[u]) : connected[u][i].socketId = s)

\* userSockets.splice(index, 1)
Splice(list, i) == [j \in 1..(Len(list) - 1) |-> IF j < i THEN list[j] ELSE list[j + 1]]

FindIndex(list, s) == CHOOSE i \in 1..Len(list) : list[i].socketId = s /\ \A j \in 1..(i - 1) : list[j].socketId # s

\* A user store that has a record for every id a token can carry.
UserExistsAny(u) == TRUE

\* usersService.findById: the stored users are exactly Users
UserExists(u) == u \in Users

\* ------------------------------------------------------ handlers in flight
ConnBusy == {s \in Sockets : conn[s].pc \in {"find", "online", "pend", "mark", "dels"}}
DiscBusy == {s \in Sockets : disc[s].pc = "online"}
TaskBusy == {t \in Tasks : task[t].pc \notin {"idle", "done"}}
ReqBusy == {r \in Requests : req[r].pc \notin {"idle", "done"}}
InFlight == Cardinality(ConnBusy) + Cardinality(DiscBusy) + Cardinality(TaskBusy) + Cardinality(ReqBusy)

\* --------------------------------------------------------- the collections
\* messagesService.getPendingFor(userId): to = user, delivered = false, user not
\* in deletedBy; sort createdAt descending, limit, then reverse.
Matching(u) == SelectSeq(messages, LAMBDA m : m.to = u /\ ~m.delivered /\ u \notin m.deletedBy)

LastN(list, n) == IF Len(list) <= n THEN list ELSE SubSeq(list, Len(list) - n + 1, Len(list))

getPendingFor(u) == LastN(Matching(u), PendingLimit)

Ids(list) == [i \in 1..Len(list) |-> list[i].id]

Range(f) == {f[i] : i \in DOMAIN f}

\* messagesService.getRecentDeletionsForUser(userId): from or to = user,
\* deletedBy not empty, updatedAt within the last 24 hours.  A run of the
\* model is shorter than that window: every stored update is within it.
getRecentDeletionsForUser(u) == SelectSeq(messages, LAMBDA m : (m.from = u \/ m.to = u) /\ m.deletedBy # {})

\* An update that flips the flag instead of setting it: a second call undoes
\* the first.
markDeliveredFlip(coll, ids) == [i \in 1..Len(coll) |-> IF coll[i].id \in ids THEN [coll[i] EXCEPT !.delivered = ~@] ELSE coll[i]]

\* An update without its filter: every document is marked.
markDeliveredAll(coll, ids) == [i \in 1..Len(coll) |-> [coll[i] EXCEPT !.delivered = TRUE]]

\* messagesService.markDelivered(ids): updateMany $set delivered
markDelivered(coll, ids) == [i \in 1..Len(coll) |-> IF coll[i].id \in ids THEN [coll[i] EXCEPT !.delivered = TRUE] ELSE coll[i]]

\* ----------------------------------------------------------- disconnecting
\* handleDisconnect without the socketIndex !== -1 test: splice(-1, 1) takes
\* the last socket off the first entry when s is in none.
UnregisterUnchecked(m, s) ==
  LET found == \E u \in DOMAIN m : \E i \in 1..Len(m[u]) : m[u][i].socketId = s
      u == IF found THEN CHOOSE k \in DOMAIN m : \E i \in 1..Len(m[k]) : m[k][i].socketId = s
           ELSE CHOOSE k \in DOMAIN m : TRUE
      rest == IF found THEN Splice(m[u], FindIndex(m[u], s)) ELSE SubSeq(m[u], 1, Len(m[u]) - 1)
  IN IF DOMAIN m = {} THEN m
     ELSE IF Len(rest) = 0 THEN MapDelete(m, u) ELSE MapSet(m, u, rest)

\* The synchronous part of handleDisconnect(s): find the entry holding s,
\* splice it out, delete the key of an emptied entry.
Unregister(m, s) ==
  IF \E u \in DOMAIN m : \E i \in 1..Len(m[u]) : m[u][i].socketId = s
  THEN LET u == CHOOSE k \in DOMAIN m : \E i \in 1..Len(m[k]) : m[k][i].socketId = s
           rest == Splice(m[u], FindIndex(m[u], s))
       IN IF Len(rest) = 0 THEN MapDelete(m, u) ELSE MapSet(m, u, rest)
  ELSE m

\* A handleDisconnect that calls setOnline(false) whatever is left of the entry.
DiscAfterAlways(m, s) ==
  IF \E u \in DOMAIN m : \E i \in 1..Len(m[u]) : m[u][i].socketId = s
  THEN LET u == CHOOSE k \in DOMAIN m : \E i \in 1..Len(m[k]) : m[k][i].socketId = s
       IN [pc |-> "online", user |-> u, last |-> Len(m[u]) = 1, onl |-> 1, bc |-> 0]
  ELSE [pc |-> "done", user |-> Unused, last |-> FALSE, onl |-> 0, bc |-> 0]

\* handleDisconnect's state after its synchronous part
DiscAfter(m, s) ==
  IF \E u \in DOMAIN m : \E i \in 1..Len(m[u]) : m[u][i].socketId = s
  THEN LET u == CHOOSE k \in DOMAIN m : \E i \in 1..Len(m[k]) : m[k][i].socketId = s
       IN [pc |-> IF Len(m[u]) = 1 THEN "online" ELSE "done", user |-> u,
           last |-> Len(m[u]) = 1, onl |-> IF Len(m[u]) = 1 THEN 1 ELSE 0, bc |-> 0]
  ELSE [pc |-> "done", user |-> Unused, last |-> FALSE, onl |-> 0, bc |-> 0]

\* ------------------------------------------------------------ initial state
\* conn[s]: pc is the place of s's handleConnection run, open its transport;
\* the rest records what that run did: first (the user's entry was empty when
\* s was registered), onl and bc (setOnline calls and users:updated
\* broadcasts made), err ('error' events sent to s), batch (the ids sent to
\* s in messages:pending), want (the ids of the user's undelivered,
\* undeleted messages when the batch was fetched) and dels (the ids replayed
\* to s as message:deleted events at the end of the run).
NewConn == [pc |-> "new", open |-> FALSE, first |-> FALSE, onl |-> 0, bc |-> 0, err |-> 0, batch |-> <<>>, want |-> <<>>,
            dels |-> {}, fail |-> "none"]
\* The record of a socket that has closed after its handleConnection run ended.
Gone == [NewConn EXCEPT !.pc = "gone"]
Forget(c) == IF c.pc = "done" /\ ~c.open THEN Gone ELSE c
NewDisc == [pc |-> "none", user |-> Unused, last |-> FALSE, onl |-> 0, bc |-> 0]
\* task[t]: pc is the place of the handler run, sock the client's socket, p
\* the payload, from the userId of fromUser, toConn the connections of
\* payload.to read at dispatch, idx the member the group loop is at; res and
\* marks record how the run ended and how many markDelivered calls it made,
\* present the sockets that were registered at dispatch.
NewTask == [pc |-> "idle", sock |-> 0, p |-> [kind |-> "none"], from |-> Unused, toConn |-> <<>>,
            idx |-> 0, res |-> "none", marks |-> 0, present |-> {}]

InitWith(tokens, ntasks, stored) ==
  /\ token = tokens
  /\ connected = << >>
  /\ online = [u \in Users |-> FALSE]
  /\ messages = stored
  /\ conn = [s \in DOMAIN tokens |-> NewConn]
  /\ disc = [s \in DOMAIN tokens |-> NewDisc]
  /\ task = [t \in 1..ntasks |-> NewTask]
  /\ emitted = << >>
  /\ req = << >>

\* --------------------------------------------------------- handleConnection
\* client.disconnect(true) inside handleConnection: the transport closes and
\* handleDisconnect's synchronous part runs at once.
ConnClose(s, c, m) ==
  /\ conn' = [conn EXCEPT ![s] = [c EXCEPT !.open = FALSE]]
  /\ connected' = Unregister(m, s)
  /\ disc' = [disc EXCEPT ![s] = IF conn[s].open THEN DiscAfter(m, s) ELSE disc[s]]

\* lines 121-146: read the token, verify it, ask for the user
ConnStart(s) ==
  /\ conn[s].pc = "new"
  /\ token[s] # Unused
  /\ \A r \in Sockets : (r < s /\ token[r] = token[s]) => conn[r].pc # "new"
  /\ InFlight < MaxInFlight
  /\ IF token[s] \in {NoToken, BadToken}
     THEN /\ conn' = [conn EXCEPT ![s] = [@ EXCEPT !.pc = "rejected", !.open = FALSE]]
          /\ disc' = [disc EXCEPT ![s] = [NewDisc EXCEPT !.pc = "done"]]
     ELSE /\ conn' = [conn EXCEPT ![s] = [@ EXCEPT !.pc = "find", !.open = TRUE]]
          /\ disc' = disc
  /\ UNCHANGED <<token, connected, online, messages, task, emitted, req>>

\* The cap check written with > : it lets one connection too many in.
CapReachedLate(userSockets) == Len(userSockets) > maxConnectionsPerUser

\* line 155: userSockets.length >= this.maxConnectionsPerUser
CapReached(userSockets) == Len(userSockets) >= maxConnectionsPerUser

\* lines 146-168: the user is back; enforce the cap, register, call setOnline
ConnRegister(s) ==
  /\ conn[s].pc = "find"
  /\ LET u == token[s]
         userSockets == Get(u)
     IN IF ~UserExists(u)
        THEN ConnClose(s, [conn[s] EXCEPT !.pc = "rejected"], connected)
        ELSE IF CapReached(userSockets)
        THEN ConnClose(s, [conn[s] EXCEPT !.pc = "rejected", !.err = @ + 1], connected)
        ELSE /\ connected' = MapSet(connected, u, Append(userSockets, SocketUser(s, u)))
             /\ conn' = [conn EXCEPT ![s] = [@ EXCEPT !.pc = "online", !.first = (Len(userSockets) = 0), !.onl = @ + 1]]
             /\ disc' = disc
  /\ UNCHANGED <<token, online, messages, task, emitted, req>>

\* A handleConnection that broadcasts users:updated only when the user's entry
\* was empty before this socket was registered.
ConnOnlineFirstOnly(s) ==
  /\ conn[s].pc = "online"
  /\ online' = [online EXCEPT ![token[s]] = TRUE]
  /\ conn' = [conn EXCEPT ![s] = [@ EXCEPT !.pc = "pend", !.bc = IF conn[s].first THEN @ + 1 ELSE @]]
  /\ UNCHANGED <<token, connected, messages, disc, task, emitted, req>>

\* lines 168-176: setOnline(userId, true) is done; listAll; broadcast
\* users:updated; ask for the pending messages
ConnOnline(s) ==
  /\ conn[s].pc = "online"
  /\ online' = [online EXCEPT ![token[s]] = TRUE]
  /\ conn' = [conn EXCEPT ![s] = [@ EXCEPT !.pc = "pend", !.bc = @ + 1]]
  /\ UNCHANGED <<token, connected, messages, disc, task, emitted, req>>

\* lines 176-196: the pending messages are back; emit them as one
\* messages:pending event and call markDelivered with their ids
ConnPending(s) ==
  /\ conn[s].pc = "pend"
  /\ LET pending == getPendingFor(token[s])
     IN conn' = [conn EXCEPT ![s] = [@ EXCEPT !.pc = IF Len(pending) > 0 THEN "mark" ELSE "dels",
                                              !.batch = Ids(pending),
                                              !.want = Ids(Matching(token[s]))]]
  /\ UNCHANGED <<token, connected, online, messages, disc, task, emitted, req>>

\* lines 179-197: markDelivered(ids of the batch) is done
ConnMark(s) ==
  /\ conn[s].pc = "mark"
  /\ messages' = markDelivered(messages, Range(conn[s].batch))
  /\ conn' = [conn EXCEPT ![s] = [@ EXCEPT !.pc = "dels"]]
  /\ UNCHANGED <<token, connected, online, disc, task, emitted, req>>

\* lines 199-227: getUnreadCountForUser (unused), then the recent deletions
\* are back and each is replayed to the client as message:deleted
ConnDeletions(s) ==
  /\ conn[s].pc = "dels"
  /\ conn' = [conn EXCEPT ![s] = Forget([@ EXCEPT !.pc = "done", !.dels = Range(Ids(getRecentDeletionsForUser(token[s])))])]
  /\ UNCHANGED <<token, connected, online, messages, disc, task, emitted, req>>

\* ----------------------------------------- the pending query, in two steps
\* await getPendingFor (line 176) as the database sees it: the query is
\* evaluated on the store of that moment and its result is on the way back.
ConnPendingRead(s) ==
  /\ conn[s].pc = "pend"
  /\ conn' = [conn EXCEPT ![s] = [@ EXCEPT !.pc = "fetched", !.batch = Ids(getPendingFor(token[s])),
                                           !.want = Ids(Matching(token[s]))]]
  /\ UNCHANGED <<token, connected, online, messages, disc, task, emitted, req>>

\* The result arrives: it is emitted as messages:pending and markDelivered is
\* called (lines 177-196)
ConnPendingBack(s) ==
  /\ conn[s].pc = "fetched"
  /\ conn' = [conn EXCEPT ![s] = [@ EXCEPT !.pc = IF Len(conn[s].batch) > 0 THEN "mark" ELSE "dels"]]
  /\ UNCHANGED <<token, connected, online, messages, disc, task, emitted, req>>

\* ------------------------------------------- a collaborator fails in connect
\* usersService.listAll() throws after setOnline(userId, true) is done (lines
\* 168-173): the outer catch runs client.disconnect(true) (lines 228-230)
ConnListFail(s) ==
  /\ conn[s].pc = "online"
  /\ online' = [online EXCEPT ![token[s]] = TRUE]
  /\ ConnClose(s, [conn[s] EXCEPT !.pc = "failed", !.fail = "list"], connected)
  /\ UNCHANGED <<token, messages, task, emitted, req>>

\* A replay without its own try: the failure reaches the outer catch.
DeletionsFailedOuter(s) == ConnClose(s, [conn[s] EXCEPT !.pc = "failed", !.fail = "dels"], connected)

\* The catch of the replay (lines 224-226) logs the error; the handler ends.
DeletionsFailed(s) ==
  /\ conn' = [conn EXCEPT ![s] = Forget([@ EXCEPT !.pc = "done", !.fail = "dels"])]
  /\ connected' = connected
  /\ disc' = disc

\* getRecentDeletionsForUser, or an emit of the replay, throws (lines 212-227)
ConnDeletionsFail(s) ==
  /\ conn[s].pc = "dels"
  /\ DeletionsFailed(s)
  /\ UNCHANGED <<token, online, messages, task, emitted, req>>

\* --------------------------------------------------------- handleDisconnect
\* The transport of s closes (the client leaves, or a ping times out) and
\* handleDisconnect runs up to its first await (lines 233-244).
Close(s) ==
  /\ conn[s].open
  /\ InFlight < MaxInFlight
  /\ conn' = [conn EXCEPT ![s] = Forget([@ EXCEPT !.open = FALSE])]
  /\ connected' = Unregister(connected, s)
  /\ disc' = [disc EXCEPT ![s] = DiscAfter(connected, s)]
  /\ UNCHANGED <<token, online, messages, task, emitted, req>>

\* lines 244-247: setOnline(userId, false) is done; listAll; broadcast
DiscOnline(s) ==
  /\ disc[s].pc = "online"
  /\ online' = [online EXCEPT ![disc[s].user] = FALSE]
  /\ disc' = [disc EXCEPT ![s] = [@ EXCEPT !.pc = "done", !.bc = @ + 1]]
  /\ UNCHANGED <<token, connected, messages, conn, task, emitted, req>>


\* ------------------------------------------------- message, location, webview
validTypes == {"text", "emoji", "gif", "sticker", "file", "location", "webview"}

\* A payload field the client left out (undefined)
Absent == "absent"

\* payload.fileName || 'file'
OrElse(x, d) == IF x \in {Absent, ""} THEN d ELSE x

\* payload.fileSize || 0, the size being <<>> when left out and <<n>> when given
OrZero(x) == IF Len(x) = 0 THEN 0 ELSE x[1]

\* String.prototype.trim on the texts the model sends
Trim(x) == IF x = " " THEN "" ELSE x

\* Save methods that build the document whatever they are handed.
SaveAcceptsAll(p) == TRUE

\* The check each save method makes before it builds the document
\* (part_001: save 56, saveEmoji 329, saveGif 347, saveSticker 369,
\* saveFile 115, saveLocation 300-305, saveWebView 394).
SaveAccepts(p) ==
  CASE p.kind = "location" -> ~(p.latitude < -90 \/ p.latitude > 90 \/ p.longitude < -180 \/ p.longitude > 180)
    [] p.kind = "webview" -> Trim(p.text) # ""
    [] p.type = "file" -> ~(p.text \in {Absent, ""} \/ OrElse(p.fileName, "file") \in {Absent, ""} \/ OrZero(p.fileSize) <= 0)
    [] OTHER -> Trim(p.text) # ""

\* The type the save method called for p stores: handleMessage calls save()
\* without a type for 'text' and for 'location' and 'webview' (lines 312-356).
StoredType(p) ==
  CASE p.kind # "message" -> p.kind
    [] p.type \in {"emoji", "gif", "sticker", "file"} -> p.type
    [] OTHER -> "text"

\* The type of the emitted data: payload.type || 'text' in handleMessage
\* (lines 294, 363), the literal 'location' or 'webview' in the two other
\* handlers (lines 436, 478).
EmittedType(p) == IF p.kind # "message" THEN p.kind ELSE OrElse(p.type, "text")

\* Only save() is handed payload.groupId (lines 313-319, 349-355).
StoredGroup(p) ==
  IF p.kind = "message" /\ p.type \in {"text", "location", "webview"} THEN p.groupId ELSE NoGroup

\* A save that trusts a sender id the payload carries.
DocumentOfPayload(id, from, p) ==
  [id |-> id, from |-> IF "from" \in DOMAIN p THEN p.from ELSE from, to |-> p.to, groupId |-> StoredGroup(p),
   type |-> StoredType(p), delivered |-> FALSE, deletedBy |-> {}]

\* The document a save method inserts: from is the fromUser.userId the handler
\* passes (gateway 314-350, 424, 465), never a field of the payload; delivered
\* and deletedBy take the schema's defaults.
Document(id, from, p) ==
  [id |-> id, from |-> from, to |-> p.to, groupId |-> StoredGroup(p), type |-> StoredType(p),
   delivered |-> FALSE, deletedBy |-> {}]

Emit(s) == [sock |-> s, live |-> conn[s].open]

\* A fan-out that reaches only the first connection of the list.
FanOutFirst(list) == IF Len(list) = 0 THEN <<>> ELSE <<Emit(list[1].socketId)>>

\* toConn.forEach(conn => this.server.to(conn.socketId).emit('message', data))
FanOut(list) == [i \in 1..Len(list) |-> Emit(list[i].socketId)]

\* The two statements in the other order: the recipient first, then the echo.
FanOutThenEcho(s, list) == FanOut(list) \o <<Emit(s)>>

\* client.emit('message', data), then the emits to toConn (lines 376-380)
EchoThenFanOut(s, list) == <<Emit(s)>> \o FanOut(list)

\* memberConns.forEach(conn => { if (conn.socketId !== client.id) emit })
FanOutExcept(list, s) == FanOut(SelectSeq(list, LAMBDA c : c.socketId # s))

\* groupsService.findById(groupId).members
Members(g) == IF g = GroupId THEN GroupMembers ELSE <<>>

\* The group loop (lines 390-401) runs without an await over the members that
\* have no connection: the next member from index i on that has one, or 0.
NextOnline(members, i) ==
  IF \E j \in i..Len(members) : Len(Get(members[j])) > 0
  THEN CHOOSE j \in i..Len(members) : Len(Get(members[j])) > 0 /\ \A k \in i..(j - 1) : Len(Get(members[k])) = 0
  ELSE 0

IdleTask(t) == task[t].pc = "idle" /\ \A r \in Tasks : r < t => task[r].pc # "idle"

EndTask(t, s, p, how) == [NewTask EXCEPT !.pc = "done", !.sock = s, !.p = p, !.res = how]

\* An inbound event p arrives on socket s: the handler looks the socket up,
\* validates, and calls the save method (handleMessage 284-356, handleLocation
\* 418-429, handleWebView 459-471).
Receive(t, s, p) ==
  /\ IdleTask(t)
  /\ conn[s].open
  /\ InFlight < MaxInFlight
  /\ IF ~Registered(s)
     THEN /\ task' = [task EXCEPT ![t] = EndTask(t, s, p, IF p.kind = "message" THEN "error" ELSE "ignored")]
          /\ conn' = IF p.kind = "message" THEN [conn EXCEPT ![s] = [@ EXCEPT !.err = @ + 1]] ELSE conn
     ELSE IF p.kind = "message" /\ p.type \notin validTypes
     THEN /\ task' = [task EXCEPT ![t] = EndTask(t, s, p, "error")]
          /\ conn' = [conn EXCEPT ![s] = [@ EXCEPT !.err = @ + 1]]
     ELSE IF ~SaveAccepts(p)
     THEN /\ task' = [task EXCEPT ![t] = EndTask(t, s, p, IF p.kind = "message" THEN "error" ELSE "thrown")]
          /\ conn' = IF p.kind = "message" THEN [conn EXCEPT ![s] = [@ EXCEPT !.err = @ + 1]] ELSE conn
     ELSE /\ task' = [task EXCEPT ![t] = [NewTask EXCEPT !.pc = "save", !.sock = s, !.p = p, !.from = FromUser(s)]]
          /\ conn' = conn
  /\ UNCHANGED <<token, connected, online, messages, disc, emitted, req>>

\* The document is saved; the handler builds the payload, echoes it to the
\* client, emits it to every connection of payload.to and calls markDelivered
\* (handleMessage 358-382, handleLocation 431-451, handleWebView 473-494).
Dispatch(t) ==
  /\ task[t].pc = "save"
  /\ LET p == task[t].p
         toConn == Get(p.to)
         grouped == p.kind = "message" /\ p.groupId # NoGroup
     IN /\ messages' = Append(messages, Document(t, task[t].from, p))
        /\ emitted' = (t :> EchoThenFanOut(task[t].sock, toConn)) @@ emitted
        /\ task' = [task EXCEPT ![t] = [@ EXCEPT !.pc = IF Len(toConn) > 0 THEN "mark"
                                                    ELSE IF grouped THEN "group" ELSE "done",
                                                 !.res = "sent", !.toConn = toConn,
                                                 !.present = {r \in Sockets : Registered(r)}]]
  /\ UNCHANGED <<token, connected, online, conn, disc, req>>

\* markDelivered([saved._id]) of the direct dispatch is done (lines 381-387)
Delivered(t) ==
  /\ task[t].pc = "mark"
  /\ messages' = markDelivered(messages, {t})
  /\ task' = [task EXCEPT ![t] = [@ EXCEPT !.pc = IF task[t].p.kind = "message" /\ task[t].p.groupId # NoGroup THEN "group" ELSE "done",
                                           !.marks = @ + 1]]
  /\ UNCHANGED <<token, connected, online, conn, disc, emitted, req>>

\* One run of the group loop from member index i: skip the members without a
\* connection, emit to the next one's connections except the client's own,
\* and call markDelivered (lines 390-400).
GroupRun(t, i) ==
  LET members == Members(task[t].p.groupId)
      j == NextOnline(members, i)
  IN IF j = 0
     THEN /\ task' = [task EXCEPT ![t] = [@ EXCEPT !.pc = "done"]]
          /\ emitted' = emitted
     ELSE /\ task' = [task EXCEPT ![t] = [@ EXCEPT !.pc = "gmark", !.idx = j]]
          /\ emitted' = [emitted EXCEPT ![t] = @ \o FanOutExcept(Get(members[j]), task[t].sock)]

\* groupsService.findById(payload.groupId) is back (lines 387-390)
GroupFound(t) ==
  /\ task[t].pc = "group"
  /\ GroupRun(t, 1)
  /\ UNCHANGED <<token, connected, online, messages, conn, disc, req>>

\* markDelivered of a group member's turn is done; the loop goes on (399-401)
GroupDelivered(t) ==
  /\ task[t].pc = "gmark"
  /\ messages' = markDelivered(messages, {t})
  /\ LET members == Members(task[t].p.groupId)
         j == NextOnline(members, task[t].idx + 1)
     IN IF j = 0
        THEN /\ task' = [task EXCEPT ![t] = [@ EXCEPT !.pc = "done", !.marks = @ + 1]]
             /\ emitted' = emitted
        ELSE /\ task' = [task EXCEPT ![t] = [@ EXCEPT !.pc = "gmark", !.idx = j, !.marks = @ + 1]]
             /\ emitted' = [emitted EXCEPT ![t] = @ \o FanOutExcept(Get(members[j]), task[t].sock)]
  /\ UNCHANGED <<token, connected, online, conn, disc, req>>

\* --------------------------------------- delete:message, get:conversation
\* getConversation(a, b, limit = 50, skip = 0)
ConversationLimit == 50

\* A query that hides a message from both users once either has deleted it.
getConversationUndeleted(a, b) ==
  LastN(SelectSeq(messages, LAMBDA m : /\ (m.from = a /\ m.to = b) \/ (m.from = b /\ m.to = a)
                                       /\ m.groupId = NoGroup
                                       /\ m.deletedBy = {}),
        ConversationLimit)

\* A query without the groupId filter: group messages between the two show.
getConversationWithGroups(a, b) ==
  LastN(SelectSeq(messages, LAMBDA m : /\ (m.from = a /\ m.to = b) \/ (m.from = b /\ m.to = a)
                                       /\ a \notin m.deletedBy),
        ConversationLimit)

\* messagesService.getConversation(a, b): the direct messages between a and b
\* that a has not deleted; sort createdAt descending, limit, then reverse.
getConversation(a, b) ==
  LastN(SelectSeq(messages, LAMBDA m : /\ (m.from = a /\ m.to = b) \/ (m.from = b /\ m.to = a)
                                       /\ m.groupId = NoGroup
                                       /\ a \notin m.deletedBy),
        ConversationLimit)

\* messagesService.findById(id): the document, or none
findById(id) == SelectSeq(messages, LAMBDA m : m.id = id)

\* No participant check at all.
MayDeleteAnyone(m, u) == TRUE

\* fromId !== userId && toId !== userId is the refusal (gateway 600, service 266)
MayDelete(m, u) == m.from = u \/ m.to = u

\* A markDeleted that removes the record for either participant.
HardDeletesAlso(m, u) == m.from = u \/ m.to = u

\* fromId === userId: the sender's delete removes the record (service 271)
HardDeletes(m, u) == m.from = u

\* messageModel.deleteOne({_id})
deleteOne(coll, id) == SelectSeq(coll, LAMBDA m : m.id # id)

\* An update written as a replacement: the set becomes the one user and the
\* other flags fall back to the schema's defaults.
SoftDeletedFresh(doc, u) == [doc EXCEPT !.deletedBy = {u}, !.delivered = FALSE]

\* {$addToSet: {deletedBy: userId}} on one document
SoftDeleted(doc, u) == [doc EXCEPT !.deletedBy = @ \cup {u}]

\* messageModel.updateOne({_id}, {$addToSet: {deletedBy: userId}})
addToSet(coll, id, u) == [i \in 1..Len(coll) |-> IF coll[i].id = id THEN SoftDeleted(coll[i], u) ELSE coll[i]]

\* A broadcast that reaches the message's recipient and the client only.
DeletedEmitsToRecipient(from, to, s) == FanOut(Get(to)) \o <<Emit(s)>>

\* The message:deleted emits of one delete: every connection of fromId, every
\* connection of toId, then the client itself (lines 611-631).
DeletedEmits(from, to, s) == FanOut(Get(from)) \o FanOut(Get(to)) \o <<Emit(s)>>

\* req[r]: pc is the place of the handler run, sock the client's socket, kind
\* the event, id the message id asked for (delete) and with the other user
\* (conversation), user the userId of fromUser, from and to those of the
\* message found; res records how the run ended, sent the message:deleted or
\* conversation emits it made, reply the ids of the conversation sent, away
\* the participants that had no registered connection when the delete was
\* applied, flag the boolean a typing or presence event carries.
NewReq == [pc |-> "idle", sock |-> 0, kind |-> "none", id |-> 0, with |-> Unused, user |-> Unused,
           from |-> Unused, to |-> Unused, res |-> "none", sent |-> <<>>, reply |-> <<>>, away |-> {},
           flag |-> FALSE]

IdleReq(r) == req[r].pc = "idle" /\ \A q \in Requests : q < r => req[q].pc # "idle"

\* client.emit('error', ...) and return, or the catch block (lines 584-587,
\* 590-593, 600-605, 632-637)
DeleteRefused(r) ==
  /\ req' = [req EXCEPT ![r] = [@ EXCEPT !.pc = "done", !.res = "error"]]
  /\ conn' = [conn EXCEPT ![req[r].sock] = [@ EXCEPT !.err = @ + 1]]

\* A delete:message event for id arrives on socket s (lines 581-589)
DeleteReceive(r, s, id) ==
  /\ IdleReq(r)
  /\ conn[s].open
  /\ InFlight < MaxInFlight
  /\ IF ~Registered(s)
     THEN /\ req' = [req EXCEPT ![r] = [NewReq EXCEPT !.pc = "done", !.sock = s, !.kind = "delete", !.id = id, !.res = "error"]]
          /\ conn' = [conn EXCEPT ![s] = [@ EXCEPT !.err = @ + 1]]
     ELSE /\ req' = [req EXCEPT ![r] = [NewReq EXCEPT !.pc = "find", !.sock = s, !.kind = "delete", !.id = id, !.user = FromUser(s)]]
          /\ conn' = conn
  /\ UNCHANGED <<token, connected, online, messages, disc, task, emitted>>

\* The handler's findById is back: not found, or not a participant, is an
\* error; otherwise markDeleted is called (lines 589-608)
DeleteFound(r) ==
  /\ req[r].pc = "find"
  /\ LET found == findById(req[r].id)
     IN IF Len(found) = 0 \/ ~MayDelete(found[1], req[r].user)
        THEN DeleteRefused(r)
        ELSE /\ req' = [req EXCEPT ![r] = [@ EXCEPT !.pc = "refind", !.from = found[1].from, !.to = found[1].to]]
             /\ conn' = conn
  /\ UNCHANGED <<token, connected, online, messages, disc, task, emitted>>

\* markDeleted's own findById is back: it throws when the message is gone or
\* the user is no participant, else issues deleteOne or updateOne (251-278)
DeleteRefound(r) ==
  /\ req[r].pc = "refind"
  /\ LET found == findById(req[r].id)
     IN IF Len(found) = 0 \/ ~MayDelete(found[1], req[r].user)
        THEN DeleteRefused(r)
        ELSE /\ req' = [req EXCEPT ![r] = [@ EXCEPT !.pc = IF HardDeletes(found[1], req[r].user) THEN "remove" ELSE "soft"]]
             /\ conn' = conn
  /\ UNCHANGED <<token, connected, online, messages, disc, task, emitted>>

\* deleteOne or updateOne is done; message:deleted goes to the connections of
\* both participants and to the client (lines 608-631)
DeleteApplied(r) ==
  /\ req[r].pc \in {"remove", "soft"}
  /\ messages' = IF req[r].pc = "remove" THEN deleteOne(messages, req[r].id)
                 ELSE addToSet(messages, req[r].id, req[r].user)
  /\ req' = [req EXCEPT ![r] = [@ EXCEPT !.pc = "done", !.res = "deleted",
                                        !.sent = DeletedEmits(req[r].from, req[r].to, req[r].sock),
                                        !.away = {u \in {req[r].from, req[r].to} : Len(Get(u)) = 0}]]
  /\ UNCHANGED <<token, connected, online, conn, disc, task, emitted>>

\* A get:conversation event arrives on socket s (lines 502-509)
ConversationReceive(r, s, w) ==
  /\ IdleReq(r)
  /\ conn[s].open
  /\ InFlight < MaxInFlight
  /\ req' = [req EXCEPT ![r] = IF Registered(s)
                               THEN [NewReq EXCEPT !.pc = "conv", !.sock = s, !.kind = "conversation", !.with = w, !.user = FromUser(s)]
                               ELSE [NewReq EXCEPT !.pc = "done", !.sock = s, !.kind = "conversation", !.with = w, !.res = "ignored"]]
  /\ UNCHANGED <<token, connected, online, messages, conn, disc, task, emitted>>

\* getConversation is back; the client is sent 'conversation' (lines 506-510)
ConversationReply(r) ==
  /\ req[r].pc = "conv"
  /\ req' = [req EXCEPT ![r] = [@ EXCEPT !.pc = "done", !.res = "replied", !.sent = <<Emit(req[r].sock)>>,
                                        !.reply = Ids(getConversation(req[r].user, req[r].with))]]
  /\ UNCHANGED <<token, connected, online, messages, conn, disc, task, emitted>>

\* handleDisconnect is invoked once more for socket s, whose transport is
\* closed and whose disconnect has been handled (lines 233-257)
DiscAgain(r, s) ==
  /\ IdleReq(r)
  /\ ~conn[s].open
  /\ disc[s].pc = "done"
  /\ InFlight < MaxInFlight
  /\ connected' = Unregister(connected, s)
  /\ disc' = [disc EXCEPT ![s] = IF Registered(s) THEN DiscAfter(connected, s) ELSE disc[s]]
  /\ req' = [req EXCEPT ![r] = [NewReq EXCEPT !.pc = "done", !.sock = s, !.kind = "disconnect",
                                              !.res = IF Registered(s) THEN "removed" ELSE "nothing"]]
  /\ UNCHANGED <<token, online, messages, conn, task, emitted>>

\* ------------------------------------------------------------------ typing
\* A typing event that reaches only the first connection of payload.to.
TypingEmitsFirst(to) == FanOutFirst(Get(to))

\* toConn.forEach(conn => this.server.to(conn.socketId).emit('typing', ...))
\* (lines 269-276)
TypingEmits(to) == FanOut(Get(to))

\* A typing event {to, typing: b} arrives on socket s; the handler has no
\* await (lines 259-277)
Typing(r, s, to, b) ==
  /\ IdleReq(r)
  /\ conn[s].open
  /\ req' = [req EXCEPT ![r] = IF Registered(s)
                               THEN [NewReq EXCEPT !.pc = "done", !.sock = s, !.kind = "typing", !.to = to, !.flag = b,
                                                   !.user = FromUser(s), !.res = "typed", !.sent = TypingEmits(to)]
                               ELSE [NewReq EXCEPT !.pc = "done", !.sock = s, !.kind = "typing", !.to = to, !.flag = b,
                                                   !.res = "ignored"]]
  /\ UNCHANGED <<token, connected, online, messages, conn, disc, task, emitted>>

\* ------------------------------------------------- userOnline, userOffline
\* client.broadcast.emit: every connected socket but the client's own
BroadcastExcept(s) == FanOut(SelectSeq([x \in Sockets |-> [socketId |-> x]], LAMBDA c : c.socketId # s /\ conn[c.socketId].open))

\* A handler that takes the payload's userId without comparing it with the
\* socket's user.
StatusReceiveAny(r, s, u, b) ==
  /\ IdleReq(r)
  /\ conn[s].open
  /\ InFlight < MaxInFlight
  /\ req' = [req EXCEPT ![r] = IF Registered(s)
                               THEN [NewReq EXCEPT !.pc = "status", !.sock = s, !.kind = "status", !.user = u, !.flag = b]
                               ELSE [NewReq EXCEPT !.pc = "done", !.sock = s, !.kind = "status", !.user = u, !.flag = b,
                                                   !.res = "ignored"]]
  /\ UNCHANGED <<token, connected, online, messages, conn, disc, task, emitted>>

\* A userOnline (b) or userOffline (~b) event {userId: u} arrives on socket s
\* (lines 529-535, 549-555)
StatusReceive(r, s, u, b) ==
  /\ IdleReq(r)
  /\ conn[s].open
  /\ InFlight < MaxInFlight
  /\ req' = [req EXCEPT ![r] = IF Registered(s) /\ FromUser(s) = u
                               THEN [NewReq EXCEPT !.pc = "status", !.sock = s, !.kind = "status", !.user = u, !.flag = b]
                               ELSE [NewReq EXCEPT !.pc = "done", !.sock = s, !.kind = "status", !.user = u, !.flag = b,
                                                   !.res = "ignored"]]
  /\ UNCHANGED <<token, connected, online, messages, conn, disc, task, emitted>>

\* A userOffline that also takes the client's socket out of the registry.
StatusAppliedUnregisters(r) ==
  /\ req[r].pc = "status"
  /\ online' = [online EXCEPT ![req[r].user] = req[r].flag]
  /\ connected' = IF req[r].flag THEN connected ELSE Unregister(connected, req[r].sock)
  /\ req' = [req EXCEPT ![r] = [@ EXCEPT !.pc = "done", !.res = "set", !.sent = BroadcastExcept(req[r].sock)]]
  /\ UNCHANGED <<token, messages, conn, disc, task, emitted>>

\* setOnline(payload.userId, b) is done; userStatusUpdate goes to the other
\* sockets (lines 537-544, 557-564)
StatusApplied(r) ==
  /\ req[r].pc = "status"
  /\ online' = [online EXCEPT ![req[r].user] = req[r].flag]
  /\ req' = [req EXCEPT ![r] = [@ EXCEPT !.pc = "done", !.res = "set", !.sent = BroadcastExcept(req[r].sock)]]
  /\ UNCHANGED <<token, connected, messages, conn, disc, task, emitted>>

\* ------------------------------------ user:heartbeat, get:group:conversation
\* A user:heartbeat event {userId: u} arrives on socket s: it is logged
\* (lines 567-571)
Heartbeat(r, s, u) ==
  /\ IdleReq(r)
  /\ conn[s].open
  /\ req' = [req EXCEPT ![r] = [NewReq EXCEPT !.pc = "done", !.sock = s, !.kind = "heartbeat", !.user = u, !.res = "logged"]]
  /\ UNCHANGED <<token, connected, online, messages, conn, disc, task, emitted>>

\* messagesService.getGroupConversation(g, u, limit = 50): the messages of
\* group g that u has not deleted; sort descending, limit, then reverse
\* (part_001 lines 169-191).
getGroupConversation(g, u) ==
  LastN(SelectSeq(messages, LAMBDA m : m.groupId = g /\ u \notin m.deletedBy), ConversationLimit)

\* A get:group:conversation event arrives on socket s (lines 513-522)
GroupConversationReceive(r, s, g) ==
  /\ IdleReq(r)
  /\ conn[s].open
  /\ InFlight < MaxInFlight
  /\ req' = [req EXCEPT ![r] = IF Registered(s)
                               THEN [NewReq EXCEPT !.pc = "gconv", !.sock = s, !.kind = "group", !.with = g, !.user = FromUser(s)]
                               ELSE [NewReq EXCEPT !.pc = "done", !.sock = s, !.kind = "group", !.with = g, !.res = "ignored"]]
  /\ UNCHANGED <<token, connected, online, messages, conn, disc, task, emitted>>

\* getGroupConversation is back; the client is sent 'group:conversation'
\* (lines 522-527)
GroupConversationReply(r) ==
  /\ req[r].pc = "gconv"
  /\ req' = [req EXCEPT ![r] = [@ EXCEPT !.pc = "done", !.res = "replied", !.sent = <<Emit(req[r].sock)>>,
                                        !.reply = Ids(getGroupConversation(req[r].with, req[r].user))]]
  /\ UNCHANGED <<token, connected, online, messages, conn, disc, task, emitted>>

\* ------------------------------------------------------------------ inputs
Text(to, g) == [kind |-> "message", type |-> "text", to |-> to, groupId |-> g, text |-> "hi"]
Location(to) == [kind |-> "location", to |-> to, groupId |-> NoGroup, latitude |-> 45, longitude |-> 90]
WebView(to) == [kind |-> "webview", to |-> to, groupId |-> NoGroup, text |-> "http://x"]

\* events that do not pass validation: an unknown type, a blank text, a
\* latitude off the map
Refused ==
  {[Text("u2", NoGroup) EXCEPT !.type = "poll"], [Text("u2", NoGroup) EXCEPT !.text = " "],
   [Location("u2") EXCEPT !.latitude = 91]}

Payloads ==
  {Text(to, g) : to \in Users, g \in {NoGroup, GroupId, LostGroup}}
    \cup {Location(to) : to \in Users} \cup {WebView(to) : to \in Users} \cup Refused

DirectPayloads == {Text("u2", NoGroup), Location("u2"), WebView("u2")}

Handling ==
  \/ \E t \in Tasks : Dispatch(t)
  \/ \E t \in Tasks : Delivered(t)
  \/ \E t \in Tasks : GroupFound(t)
  \/ \E t \in Tasks : GroupDelivered(t)

Messaging ==
  \/ \E t \in Tasks, s \in Sockets, p \in Payloads : Receive(t, s, p)
  \/ Handling

\* Direct messages to u2 only.
DirectHandling ==
  \/ \E t \in Tasks : Dispatch(t)
  \/ \E t \in Tasks : Delivered(t)

\* The events come from u1's client or from u2's first one.
FanSenders == {1, 7}

DirectMessaging ==
  \/ \E t \in Tasks, s \in FanSenders, p \in DirectPayloads : Receive(t, s, p)
  \/ DirectHandling

\* ------------------------------------------------------------ specification
Presence ==
  \/ \E s \in Sockets : ConnStart(s)
  \/ \E s \in Sockets : ConnRegister(s)
  \/ \E s \in Sockets : ConnOnline(s)
  \/ \E s \in Sockets : ConnPending(s)
  \/ \E s \in Sockets : ConnMark(s)
  \/ \E s \in Sockets : ConnDeletions(s)
  \/ \E s \in Sockets : Close(s)
  \/ \E s \in Sockets : DiscOnline(s)

\* One socket per user, one inbound event.
Init == InitWith(<<"u1", "u2", "u3">>, 1, <<>>)

Next == Presence \/ Messaging

Spec == Init /\ [][Next]_vars

\* u1 has sent u2 n direct messages while u2 had no connection; the message
\* ids stored before the run are negative, oldest first.
Backlog(n) == [i \in 1..n |-> [id |-> i - n - 1, from |-> "u1", to |-> "u2", groupId |-> NoGroup, type |-> "text",
                               delivered |-> FALSE, deletedBy |-> {}]]

\* Six clients of one user, who has one message waiting: the connection cap.
InitCap == InitWith(<<"u2", "u2", "u2", "u2", "u2", "u2">>, 0, Backlog(1))

SpecCap == InitCap /\ [][Presence]_vars

\* A settled state: clients 1..n of u2 and client 7 of u1 are connected and
\* their handleConnection runs have ended; one more client of u2 may come.
Settled(n) ==
  /\ token = [s \in 1..7 |-> IF s <= n + 1 /\ s <= 6 THEN "u2" ELSE IF s = 7 THEN "u1" ELSE Unused]
  /\ connected = [u \in {"u1", "u2"} |-> IF u = "u1" THEN <<SocketUser(7, "u1")>> ELSE [i \in 1..n |-> SocketUser(i, "u2")]]
  /\ online = [u \in Users |-> u \in {"u1", "u2"}]
  /\ messages = <<>>
  /\ conn = [s \in 1..7 |-> IF s <= n \/ s = 7
                            THEN [NewConn EXCEPT !.pc = "done", !.open = TRUE, !.first = (s \in {1, 7}), !.onl = 1, !.bc = 1]
                            ELSE NewConn]
  /\ disc = [s \in 1..7 |-> NewDisc]
  /\ task = [t \in 1..1 |-> NewTask]
  /\ emitted = << >>
  /\ req = << >>

\* Up to five clients of u2 and one of u1, one direct event: multi-device fan-out.
InitFan == \E n \in 1..maxConnectionsPerUser : Settled(n)

NextFan == Presence \/ DirectMessaging

SpecFan == InitFan /\ [][NextFan]_vars

\* Two clients of a user who has up to MaxBacklog messages waiting, a client
\* whose token names no stored user and a client without a usable token.
InitBacklog ==
  \E n \in 0..MaxBacklog, bad \in {NoToken, BadToken} : InitWith(<<"u2", "u2", Ghost, bad>>, 0, Backlog(n))

SpecBacklog == InitBacklog /\ [][Presence]_vars

\* The message ids a delete asks for: the stored one and one that names nothing.
DeleteIds == {-1, -9}

\* The users a conversation is asked with: the two of the stored message.
Peers == {"u1", "u2"}

Requesting ==
  \/ \E r \in Requests, s \in Sockets, id \in DeleteIds : DeleteReceive(r, s, id)
  \/ \E r \in Requests : DeleteFound(r)
  \/ \E r \in Requests : DeleteRefound(r)
  \/ \E r \in Requests : DeleteApplied(r)
  \/ \E r \in Requests, s \in Sockets, w \in Peers : ConversationReceive(r, s, w)
  \/ \E r \in Requests : ConversationReply(r)

\* u1 (client 1) and the bystander u3 (client 3) are connected and settled; u1
\* has sent u2 one message.  Either u2 has not connected yet and the message
\* waits (k = 0), or k = 1 or 2 clients of u2 (2, then 4) are connected and
\* the message has been sent to u2.  Two delete or conversation events arrive.
DeleteStart(k) ==
  /\ token = <<"u1", "u2", "u3", IF k = 2 THEN "u2" ELSE Unused>>
  /\ connected = [u \in (IF k > 0 THEN {"u1", "u2", "u3"} ELSE {"u1", "u3"}) |->
                    IF u = "u1" THEN <<SocketUser(1, "u1")>>
                    ELSE IF u = "u3" THEN <<SocketUser(3, "u3")>>
                    ELSE IF k = 1 THEN <<SocketUser(2, "u2")>> ELSE <<SocketUser(2, "u2"), SocketUser(4, "u2")>>]
  /\ online = [u \in Users |-> u # "u2" \/ k > 0]
  /\ messages = [i \in 1..1 |-> [Backlog(1)[i] EXCEPT !.delivered = (k > 0)]]
  /\ conn = [s \in 1..4 |-> IF s \in {1, 3} \/ (s = 2 /\ k > 0) \/ (s = 4 /\ k = 2)
                            THEN [NewConn EXCEPT !.pc = "done", !.open = TRUE, !.first = (s # 4), !.onl = 1, !.bc = 1,
                                                 !.batch = IF s = 2 THEN <<-1>> ELSE <<>>,
                                                 !.want = IF s = 2 THEN <<-1>> ELSE <<>>]
                            ELSE NewConn]
  /\ disc = [s \in 1..4 |-> NewDisc]
  /\ task = << >>
  /\ emitted = << >>
  /\ req = [r \in 1..2 |-> NewReq]

InitDelete == \E k \in {0, 1, 2} : DeleteStart(k)

NextDelete == Presence \/ Requesting

SpecDelete == InitDelete /\ [][NextDelete]_vars

\* No socket has connected yet, the store holds the messages stored, and
\* nreq events of the request kind may arrive.
InitReq(tokens, nreq, stored) ==
  /\ token = tokens
  /\ connected = << >>
  /\ online = [u \in Users |-> FALSE]
  /\ messages = stored
  /\ conn = [s \in DOMAIN tokens |-> NewConn]
  /\ disc = [s \in DOMAIN tokens |-> NewDisc]
  /\ task = << >>
  /\ emitted = << >>
  /\ req = [r \in 1..nreq |-> NewReq]

\* One client of u1 and two of u2, who has a message waiting; u3 never
\* connects.  One typing event.
InitTyping == InitReq(<<"u1", "u2", "u2">>, 1, Backlog(1))

NextTyping ==
  \/ Presence
  \/ \E r \in Requests, s \in Sockets, to \in Users, b \in BOOLEAN : Typing(r, s, to, b)

SpecTyping == InitTyping /\ [][NextTyping]_vars

\* Two clients of u2, who has a message waiting, and a client whose token
\* names no stored user.  One socket's disconnect is handled a second time.
InitAgain == InitReq(<<"u2", "u2", Ghost>>, 1, Backlog(1))

NextAgain ==
  \/ Presence
  \/ \E r \in Requests, s \in Sockets : DiscAgain(r, s)

SpecAgain == InitAgain /\ [][NextAgain]_vars

\* One client of u1 and two of u2, who has a message waiting.  One userOnline
\* or userOffline event.
InitStatus == InitReq(<<"u1", "u2", "u2">>, 1, Backlog(1))

NextStatus ==
  \/ Presence
  \/ \E r \in Requests, s \in Sockets, u \in Peers, b \in BOOLEAN : StatusReceive(r, s, u, b)
  \/ \E r \in Requests : StatusApplied(r)

SpecStatus == InitStatus /\ [][NextStatus]_vars

\* A client of u1 and one of u2, who has a message waiting; two userOnline or
\* userOffline events arrive.
InitOwner == InitReq(<<"u1", "u2">>, 2, Backlog(1))

SpecOwner == InitOwner /\ [][NextStatus]_vars

\* Two clients of u2, who has two messages waiting, and one of u1; listAll
\* and the replay of the deletions may fail.
InitFail == InitWith(<<"u2", "u2", "u1">>, 0, Backlog(2))

NextFail ==
  \/ Presence
  \/ \E s \in Sockets : ConnListFail(s)
  \/ \E s \in Sockets : ConnDeletionsFail(s)

SpecFail == InitFail /\ [][NextFail]_vars

\* The events of every handler: a direct and a group message, a location and
\* a web view for u2.
HandlerPayloads == {Text("u2", NoGroup), Text("u2", GroupId), Location("u2"), WebView("u2")}

\* One client of u1 and one of u2, who has a message waiting; one message,
\* location or webview event and one event of the other kinds.
InitHandlers ==
  /\ token = <<"u1", "u2">>
  /\ connected = << >>
  /\ online = [u \in Users |-> FALSE]
  /\ messages = Backlog(1)
  /\ conn = [s \in 1..2 |-> NewConn]
  /\ disc = [s \in 1..2 |-> NewDisc]
  /\ task = [t \in 1..1 |-> NewTask]
  /\ emitted = << >>
  /\ req = [r \in 1..1 |-> NewReq]

Events ==
  \/ \E t \in Tasks, s \in Sockets, p \in HandlerPayloads : Receive(t, s, p)
  \/ \E r \in Requests, s \in Sockets, to \in Peers, b \in BOOLEAN : Typing(r, s, to, b)
  \/ \E r \in Requests, s \in Sockets, id \in DeleteIds : DeleteReceive(r, s, id)
  \/ \E r \in Requests, s \in Sockets, w \in Peers : ConversationReceive(r, s, w)
  \/ \E r \in Requests, s \in Sockets : GroupConversationReceive(r, s, GroupId)
  \/ \E r \in Requests, s \in Sockets, u \in Peers, b \in BOOLEAN : StatusReceive(r, s, u, b)
  \/ \E r \in Requests, s \in Sockets : Heartbeat(r, s, token[s])

Answers ==
  \/ \E r \in Requests : DeleteFound(r)
  \/ \E r \in Requests : DeleteRefound(r)
  \/ \E r \in Requests : DeleteApplied(r)
  \/ \E r \in Requests : ConversationReply(r)
  \/ \E r \in Requests : GroupConversationReply(r)
  \/ \E r \in Requests : StatusApplied(r)

NextHandlers == Presence \/ Events \/ Handling \/ Answers

SpecHandlers == InitHandlers /\ [][NextHandlers]_vars

\* u1 and u3 are connected, u1's message to u2 waits and u2 connects while
\* delete:message events arrive; the pending query may be answered late.
InitStale == DeleteStart(0)

NextStale ==
  \/ Presence
  \/ \E s \in Sockets : ConnPendingRead(s)
  \/ \E s \in Sockets : ConnPendingBack(s)
  \/ \E r \in Requests, s \in Sockets, id \in DeleteIds : DeleteReceive(r, s, id)
  \/ \E r \in Requests : DeleteFound(r)
  \/ \E r \in Requests : DeleteRefound(r)
  \/ \E r \in Requests : DeleteApplied(r)

SpecStale == InitStale /\ [][NextStale]_vars

\* One stored message, with the flags a save leaves and delivered as given.
Kept(id, from, to, g, d) ==
  [id |-> id, from |-> from, to |-> to, groupId |-> g, type |-> "text", delivered |-> d, deletedBy |-> {}]

\* What was sent while u1 and u3 were connected and u2 was not: direct
\* messages both ways between u1 and u2, one between u1 and u3, a group
\* message of u1 that names u2, and one from u3 to u2.
ConvStore ==
  <<Kept(-5, "u1", "u2", NoGroup, FALSE), Kept(-4, "u2", "u1", NoGroup, TRUE), Kept(-3, "u1", "u3", NoGroup, TRUE),
    Kept(-2, "u1", "u2", GroupId, FALSE), Kept(-1, "u3", "u2", NoGroup, FALSE)>>

\* The message ids a delete asks for in that store.
ConvIds == {-5, -4, -2}

\* u1 (client 1) and u3 (client 3) are connected and settled, u2 (client 2)
\* has yet to connect; two delete or conversation events arrive.
InitConv ==
  /\ token = <<"u1", "u2", "u3">>
  /\ connected = [u \in {"u1", "u3"} |-> IF u = "u1" THEN <<SocketUser(1, "u1")>> ELSE <<SocketUser(3, "u3")>>]
  /\ online = [u \in Users |-> u # "u2"]
  /\ messages = ConvStore
  /\ conn = [s \in 1..3 |-> IF s \in {1, 3}
                            THEN [NewConn EXCEPT !.pc = "done", !.open = TRUE, !.first = TRUE, !.onl = 1, !.bc = 1]
                            ELSE NewConn]
  /\ disc = [s \in 1..3 |-> NewDisc]
  /\ task = << >>
  /\ emitted = << >>
  /\ req = [r \in 1..2 |-> NewReq]

NextConv ==
  \/ Presence
  \/ \E r \in Requests, s \in Sockets, id \in ConvIds : DeleteReceive(r, s, id)
  \/ \E r \in Requests : DeleteFound(r)
  \/ \E r \in Requests : DeleteRefound(r)
  \/ \E r \in Requests : DeleteApplied(r)
  \/ \E r \in Requests, s \in Sockets, w \in Users : ConversationReceive(r, s, w)
  \/ \E r \in Requests : ConversationReply(r)

SpecConv == InitConv /\ [][NextConv]_vars

\* A payload that carries a field the event interfaces do not have: a sender id.
Forge(p, u) == ("from" :> u) @@ p

\* Events to u2 that name u3, who has no connection, as their sender, and
\* one that names nobody.
ForgedPayloads ==
  {Forge(Text("u2", NoGroup), "u3"), Forge(Location("u2"), "u3"), Forge(WebView("u2"), "u3"), Text("u2", NoGroup)}

\* Clients of u1 and u2, two inbound events.
InitForged == InitWith(<<"u1", "u2">>, 2, <<>>)

NextForged ==
  \/ Presence
  \/ \E t \in Tasks, s \in Sockets, p \in ForgedPayloads : Receive(t, s, p)
  \/ \E t \in Tasks : Dispatch(t)
  \/ \E t \in Tasks : Delivered(t)

SpecForged == InitForged /\ [][NextForged]_vars

\* message events of the four text-carrying types whose text is empty or blank
BlankTexts ==
  {[Text("u2", NoGroup) EXCEPT !.type = ty, !.text = x] : ty \in {"text", "emoji", "gif", "sticker"}, x \in {"", " "}}

\* location events with one coordinate just past its range
OffMap ==
  {[Location("u2") EXCEPT !.latitude = c[1], !.longitude = c[2]] :
     c \in {<<91, 90>>, <<-91, 90>>, <<45, 181>>, <<45, -181>>, <<91, 181>>}}

\* events that pass: the four types with a text, the corners of the map
WellFormed ==
  {[Text("u2", NoGroup) EXCEPT !.type = ty] : ty \in {"text", "emoji", "gif", "sticker"}}
    \cup {[Location("u2") EXCEPT !.latitude = c[1], !.longitude = c[2]] : c \in {<<90, 180>>, <<-90, -180>>}}

InputPayloads == BlankTexts \cup OffMap \cup WellFormed

\* One client of u1 and one of u2, one inbound event to u2.
InitInput == InitWith(<<"u1", "u2">>, 1, <<>>)

NextInput ==
  \/ Presence
  \/ \E t \in Tasks, s \in Sockets, p \in InputPayloads : Receive(t, s, p)
  \/ DirectHandling

SpecInput == InitInput /\ [][NextInput]_vars

\* a message event of type file: text carries the url
File(to) ==
  [kind |-> "message", type |-> "file", to |-> to, groupId |-> NoGroup, text |-> "http://f", fileName |-> "a.txt",
   fileSize |-> <<10>>]

\* file events without a url, without a name, or without a positive size
NoUrl == {[File("u2") EXCEPT !.text = x] : x \in {Absent, ""}}
NoName == {[File("u2") EXCEPT !.fileName = x] : x \in {Absent, ""}}
NoSize == {[File("u2") EXCEPT !.fileSize = x] : x \in {<<>>, <<0>>, <<-1>>}}

FilePayloads == {File("u2")} \cup NoUrl \cup NoName \cup NoSize

NextFile ==
  \/ Presence
  \/ \E t \in Tasks, s \in Sockets, p \in FilePayloads : Receive(t, s, p)
  \/ DirectHandling

\* One client of u1 and one of u2, one inbound file event to u2.
SpecFile == InitInput /\ [][NextFile]_vars

\* One message event to u2 for each type the handler accepts, with every
\* field a save method asks for.
TypedPayloads == {[File("u2") EXCEPT !.type = ty] : ty \in validTypes}

NextTypes ==
  \/ Presence
  \/ \E t \in Tasks, s \in Sockets, p \in TypedPayloads : Receive(t, s, p)
  \/ DirectHandling

\* One client of u1 and one of u2, one inbound message event of any type.
SpecTypes == InitInput /\ [][NextTypes]_vars

\* ------------------------------------------------------------------ claims
AfterOnline == {"pend", "mark", "dels", "done"}
AfterFetch == {"mark", "dels", "done"}
AfterFlush == {"dels", "done"}

Stored(id) == \E i \in DOMAIN messages : messages[i].id = id
Doc(id) == messages[CHOOSE i \in DOMAIN messages : messages[i].id = id]

\* C1: a user's registry entry never holds more than 5 connections; a connect
\* whose user already holds 5 is sent 'error', its transport is closed, it is
\* never registered, and the registry stays as it was.
C1_CapEnforced ==
  /\ [](\A u \in DOMAIN connected : Len(connected[u]) <= 5)
  /\ [](\A s \in Sockets : conn[s].pc = "rejected" => ~Registered(s) /\ ~conn[s].open)
  /\ [][\A s \in Sockets :
          (conn[s].pc = "find" /\ conn'[s].pc # "find" /\ Len(Get(token[s])) >= 5) =>
             /\ conn'[s].pc = "rejected"
             /\ conn'[s].err = conn[s].err + 1
             /\ connected' = connected]_vars

C1_Witness == \E s \in Sockets : conn[s].pc = "rejected" /\ conn[s].err = 1 /\ Len(Get(token[s])) = 5

C3_OnlyLastAnnounces ==
  /\ [](\A s \in Sockets :
          /\ disc[s].pc = "done" => IF disc[s].last THEN disc[s].onl = 1 /\ disc[s].bc = 1
                                    ELSE disc[s].onl = 0 /\ disc[s].bc = 0
          /\ disc[s].pc = "online" => disc[s].onl = 1 /\ disc[s].bc = 0)
  /\ [][\A s \in Sockets : (Registered(s) /\ disc[s].pc = "none" /\ disc'[s].pc # "none") =>
          /\ ~Registered(s)'
          /\ Len(Get(token[s]))' = Len(Get(token[s])) - 1
          /\ disc'[s].last = (Len(Get(token[s])) = 1)
          /\ disc'[s].onl = (IF Len(Get(token[s])) = 1 THEN 1 ELSE 0)]_vars

C3_Witness ==
  /\ \E s \in Sockets : disc[s].pc = "done" /\ disc[s].last /\ disc[s].onl = 1 /\ disc[s].bc = 1
  /\ \E s \in Sockets : disc[s].pc = "done" /\ disc[s].user # Unused /\ ~disc[s].last /\ disc[s].bc = 0

\* C4: the dispatch of a direct message whose recipient has n registered
\* connections, 1 <= n <= 5, emits 'message' to each of the n and calls
\* markDelivered for the message once, not once per connection.
C4_FanOutToEveryDevice ==
  /\ [][\A t \in Tasks : (task[t].pc = "save" /\ task'[t].pc # "save" /\ task[t].p.groupId = NoGroup) =>
          \A i \in 1..Len(Get(task[t].p.to)) :
            \E j \in DOMAIN emitted'[t] : emitted'[t][j].sock = Get(task[t].p.to)[i].socketId]_vars
  /\ [](\A t \in Tasks : (task[t].res = "sent" /\ task[t].p.groupId = NoGroup /\ Len(task[t].toConn) \in 1..5) =>
          /\ task[t].marks <= 1
          /\ task[t].pc = "done" => task[t].marks = 1)

C4_Witness ==
  \E t \in Tasks : /\ task[t].pc = "done" /\ task[t].sock = 7 /\ task[t].marks = 1
                   /\ Len(task[t].toConn) = 5
                   /\ \A s \in 1..5 : \E j \in DOMAIN emitted[t] : emitted[t][j].sock = s

\* C5: every message, location or webview event that is persisted is echoed
\* to the originating connection, whether or not the recipient has a
\* connection, and the echo is the first 'message' emit made for it.
C5_EchoFirst ==
  \A t \in Tasks :
    /\ Stored(t) => task[t].res = "sent"
    /\ task[t].res = "sent" <=> t \in DOMAIN emitted
    /\ task[t].res = "sent" => emitted[t][1].sock = task[t].sock

C5_Witness ==
  \E t \in Tasks : /\ task[t].res = "sent" /\ task[t].p.kind = "location"
                   /\ Len(emitted[t]) >= 2
                   /\ emitted[t][1].sock = task[t].sock /\ emitted[t][2].sock # task[t].sock

\* A message was dispatched while its recipient had no registered connection.
SentOffline(m) == m.id < 0 \/ (m.id \in Tasks /\ \A r \in task[m.id].present : token[r] # m.to)

\* C6: a direct message sent while its recipient has no connection stays
\* undelivered until the recipient connects; the recipient's next connect is
\* sent it in messages:pending, and after that flush it is delivered.
C6_OfflineMessageFlushed ==
  \A i \in DOMAIN messages :
    LET m == messages[i]
    IN (m.groupId = NoGroup /\ SentOffline(m)) =>
         /\ m.delivered => \E s \in Sockets : token[s] = m.to /\ conn[s].pc \notin {"new", "find", "rejected"}
         /\ \A s \in Sockets :
              /\ (token[s] = m.to /\ conn[s].pc \in AfterFetch /\ m.id \in Range(conn[s].want)) => m.id \in Range(conn[s].batch)
              /\ (conn[s].pc \in AfterFlush /\ m.id \in Range(conn[s].batch)) => m.delivered

\* C7: the messages:pending batch of a connect holds exactly the user's
\* undelivered messages that the user has not deleted, all of them, in
\* creation order, and after the flush each of them is delivered.
C7_BatchIsAllPending ==
  \A s \in Sockets :
    /\ conn[s].pc \in AfterFetch => conn[s].batch = conn[s].want
    /\ conn[s].pc \in AfterFlush => \A id \in Range(conn[s].batch) : Stored(id) => Doc(id).delivered

Others(t) == Range(GroupMembers) \ {task[t].from}
GroupSent(t) == task[t].res = "sent" /\ task[t].p.groupId = GroupId
Times(log, s) == Cardinality({j \in DOMAIN log : log[j].sock = s})

\* C8: a group message from A on connection s, sent while A, B and C all have
\* connections, is emitted to every connection of B and of C, and s is sent
\* the 'message' event once.
C8_GroupEchoOnce ==
  \A t \in Tasks :
    (GroupSent(t) /\ task[t].pc = "done" /\ \A u \in Range(GroupMembers) : \E r \in task[t].present : token[r] = u) =>
      /\ Times(emitted[t], task[t].sock) = 1
      /\ \A r \in task[t].present : (token[r] \in Others(t) /\ Registered(r)) => Times(emitted[t], r) >= 1

\* C9: a group message addressed to another member and sent while no member
\* but the sender has ever had a registered connection is still undelivered
\* when its dispatch has ended.
C9_GroupStaysUndelivered ==
  \A t \in Tasks :
    (/\ GroupSent(t) /\ task[t].pc = "done" /\ task[t].p.to \in Others(t)
     /\ \A s \in Sockets : token[s] \in Others(t) => conn[s].pc \in {"new", "find", "rejected"}
     /\ Stored(t)) => ~Doc(t).delivered

\* C10: a member who had no registered connection when a group message was
\* dispatched is sent it in messages:pending by the connect that follows.
C10_GroupFlushedToMembers ==
  \A t \in Tasks : GroupSent(t) =>
    \A s \in Sockets :
      (/\ token[s] \in Others(t)
       /\ \A r \in task[t].present : token[r] # token[s]
       /\ \A r \in Sockets \ {s} : token[r] = token[s] => conn[r].pc = "new"
       /\ Registered(s) /\ conn[s].pc \in AfterFetch) => t \in Range(conn[s].batch)

\* The markDelivered calls made so far that name message t: those of its
\* dispatch and those of the reconnect flushes whose batch holds it.
Calls(t) == task[t].marks + Cardinality({s \in Sockets : conn[s].pc \in AfterFlush /\ t \in Range(conn[s].batch)})

MessageIds == {messages[i].id : i \in DOMAIN messages}

\* C12: while a message record exists its delivered flag never goes from true
\* to false and its deletedBy set never loses a member.
C12_FlagsOnlyGrow ==
  [][\A id \in MessageIds : (Stored(id))' =>
       /\ Doc(id).delivered => (Doc(id).delivered)'
       /\ Doc(id).deletedBy \subseteq (Doc(id).deletedBy)']_vars

C12_Witness ==
  /\ Stored(-1) /\ Doc(-1).delivered /\ Doc(-1).deletedBy = {"u2"}
  /\ \E r \in Requests : req[r].res = "deleted" /\ req[r].user = "u2"
  /\ \E s \in Sockets : conn[s].pc \in AfterFlush /\ -1 \in Range(conn[s].batch)

\* C13: a message record leaves the store only when a delete request of its
\* from user is applied; a delete request of its to user keeps the record
\* and only adds that user to deletedBy.
C13_OnlySenderRemoves ==
  /\ [][\A id \in MessageIds : ~(Stored(id))' =>
          \E r \in Requests : /\ req[r].pc = "remove" /\ req'[r].pc = "done" /\ req'[r].res = "deleted"
                               /\ req[r].id = id /\ req[r].user = Doc(id).from]_vars
  /\ [][\A id \in MessageIds : \A r \in Requests :
          (/\ req[r].pc \in {"remove", "soft"} /\ req'[r].pc = "done" /\ req[r].id = id
           /\ req[r].user = Doc(id).to /\ req[r].user # Doc(id).from) =>
             /\ (Stored(id))'
             /\ (Doc(id))' = [Doc(id) EXCEPT !.deletedBy = @ \cup {req[r].user}]]_vars

C13_Witness ==
  /\ ~Stored(-1)
  /\ \E r \in Requests : req[r].res = "deleted" /\ req[r].id = -1 /\ req[r].user = "u1"
  /\ \E r \in Requests : req[r].res = "deleted" /\ req[r].id = -1 /\ req[r].user = "u2"

\* A delete of message id by user u has been applied.
DeletedBy(id, u) == \E q \in Requests : req[q].res = "deleted" /\ req[q].id = id /\ req[q].user = u

\* C14: for the direct message M from A to B, a conversation sent after A
\* deleted M omits M, to A and to B alike; a conversation sent after B, and
\* not A, deleted M holds M when A asked for it and omits M when B did.
C14_DeletionViews ==
  [][\A r \in Requests : \A q \in Requests :
       (/\ req[r].pc = "conv" /\ req'[r].pc = "done"
        /\ req[q].res = "deleted" /\ req[q].from # req[q].to
        /\ {req[r].user, req[r].with} = {req[q].from, req[q].to}) =>
          /\ req[q].user = req[q].from => req[q].id \notin Range(req'[r].reply)
          /\ (req[q].user = req[q].to /\ ~DeletedBy(req[q].id, req[q].from)) =>
                IF req[r].user = req[q].from
                THEN req[q].id \in Range(req'[r].reply)
                ELSE req[q].id \notin Range(req'[r].reply)]_vars

C14_Witness ==
  /\ DeletedBy(-1, "u2") /\ ~DeletedBy(-1, "u1")
  /\ \E r \in Requests : /\ req[r].res = "replied" /\ req[r].user = "u1" /\ req[r].with = "u2"
                           /\ req[r].reply = <<-1>>

\* C15: a delete:message request of a user who is neither from nor to of the
\* message, or for an id that names no stored message, sends one 'error' to
\* the requesting connection and to no other, leaves the store as it is and
\* emits no message:deleted.
C15_RefusedDeleteChangesNothing ==
  /\ [][\A r \in Requests : \A id \in DeleteIds :
          (/\ req[r].pc \in {"find", "refind"} /\ req'[r].pc # req[r].pc /\ req[r].id = id
           /\ \/ ~Stored(id)
              \/ Stored(id) /\ Doc(id).from # req[r].user /\ Doc(id).to # req[r].user) =>
             /\ req'[r].pc = "done" /\ req'[r].res = "error" /\ req'[r].sent = <<>>
             /\ messages' = messages
             /\ conn' = [conn EXCEPT ![req[r].sock] = [@ EXCEPT !.err = @ + 1]]]_vars
  /\ [](\A r \in Requests : req[r].res = "error" => req[r].sent = <<>>)

C15_Witness ==
  /\ \E r \in Requests : /\ req[r].res = "error" /\ req[r].user = "u3" /\ req[r].id = -1
                           /\ conn[req[r].sock].err >= 1
  /\ \E r \in Requests : req[r].res = "error" /\ req[r].user = "u1" /\ req[r].id = -9
  /\ Stored(-1) /\ Doc(-1).deletedBy = {}

\* C16: when a delete (hard or soft) has been applied, every connection that
\* is registered at that moment for the message's from user or its to user
\* is sent message:deleted by that request.
C16_DeletionBroadcast ==
  [][\A r \in Requests : (req[r].pc \in {"remove", "soft"} /\ req'[r].pc = "done") =>
       /\ req'[r].res = "deleted"
       /\ \A u \in {req[r].from, req[r].to} : \A i \in 1..Len(Get(u)) :
            \E j \in DOMAIN req'[r].sent : req'[r].sent[j].sock = Get(u)[i].socketId]_vars

C16_Witness ==
  \E r \in Requests : /\ req[r].res = "deleted" /\ req[r].user = "u2" /\ req[r].sock = 4
                       /\ \A s \in {1, 2, 4} : Registered(s) /\ \E j \in DOMAIN req[r].sent : req[r].sent[j].sock = s

\* C17: when a message to or from user U has been deleted while U had no
\* registered connection, the connect of U that follows is sent
\* message:deleted for that message id.
C17_DeletionReplayed ==
  \A r \in Requests : req[r].res = "deleted" =>
    \A s \in Sockets : (token[s] \in req[r].away /\ conn[s].pc = "done" /\ Registered(s)) => req[r].id \in conn[s].dels

\* C18: a connect without a token, with a token that fails verification, or
\* with a user id that names no stored user never registers the socket, calls
\* setOnline neither in handleConnection nor in handleDisconnect, emits
\* nothing (no users:updated, error, messages:pending or message:deleted), and
\* ends with the transport closed.
C18_RejectedConnectIsSilent ==
  \A s \in Sockets : token[s] \in {NoToken, BadToken, Ghost} =>
    /\ ~Registered(s)
    /\ conn[s].pc \in {"new", "find", "rejected"}
    /\ conn[s].pc = "rejected" => ~conn[s].open
    /\ conn[s].onl = 0 /\ conn[s].bc = 0 /\ conn[s].err = 0
    /\ conn[s].batch = <<>> /\ conn[s].dels = {}
    /\ disc[s].onl = 0 /\ disc[s].bc = 0 /\ disc[s].pc \in {"none", "done"}

C18_Witness ==
  /\ \E s \in Sockets : token[s] = Ghost /\ conn[s].pc = "rejected" /\ disc[s].pc = "done"
  /\ \E s \in Sockets : token[s] \in {NoToken, BadToken} /\ conn[s].pc = "rejected" /\ disc[s].pc = "done"
  /\ \E s \in Sockets : Registered(s)

\* C19: a message event of type text, emoji, gif or sticker with an empty or
\* blank text ends with exactly one error event on the socket it came from;
\* no document is stored for it, no message event is emitted to any
\* connection, and the step that refuses it leaves the registry as it was.
C19_BlankTextRefused ==
  /\ [](\A t \in Tasks : (task[t].pc # "idle" /\ task[t].p \in BlankTexts) =>
          /\ task[t].pc = "done" /\ task[t].res = "error"
          /\ t \notin DOMAIN emitted
          /\ \A i \in 1..Len(messages) : messages[i].id # t
          /\ conn[task[t].sock].pc # "gone" => conn[task[t].sock].err = 1
          /\ \A s \in Sockets : s # task[t].sock => conn[s].err = 0)
  /\ [][\A t \in Tasks : (task[t].pc = "idle" /\ task'[t].pc # "idle" /\ task'[t].p \in BlankTexts) =>
          /\ connected' = connected
          /\ messages' = messages
          /\ emitted' = emitted]_vars

C19_Witness ==
  \E t \in Tasks :
    /\ task[t].p \in BlankTexts /\ task[t].p.text = " " /\ task[t].p.type = "sticker"
    /\ task[t].res = "error"
    /\ Registered(task[t].sock) /\ conn[task[t].sock].pc = "done" /\ conn[task[t].sock].err = 1
    /\ \E s \in Sockets : token[s] = "u2" /\ Registered(s) /\ conn[s].pc = "done"

\* C20: a location event from a registered connection whose latitude or
\* longitude is out of range ends with one error event on the socket it came
\* from; no document is stored for it and no message event is emitted.
C20_OffMapRefused ==
  \A t \in Tasks : (task[t].pc # "idle" /\ task[t].p \in OffMap /\ task[t].res # "ignored") =>
    /\ task[t].pc = "done" /\ task[t].res = "error"
    /\ t \notin DOMAIN emitted
    /\ \A i \in 1..Len(messages) : messages[i].id # t
    /\ conn[task[t].sock].pc # "gone" => conn[task[t].sock].err = 1

\* C21: a message event of type file from a registered connection that has
\* no url, no file name, or no positive size ends with an error event on the
\* socket it came from; no document is stored for it and no message event is
\* emitted.
C21_BadFileRefused ==
  \A t \in Tasks : (task[t].pc # "idle" /\ task[t].p \in (NoUrl \cup NoName \cup NoSize)) =>
    /\ task[t].pc = "done" /\ task[t].res = "error"
    /\ t \notin DOMAIN emitted
    /\ \A i \in 1..Len(messages) : messages[i].id # t

\* C22: every message, location or webview event whose handler has ended,
\* from any socket and with any payload, was answered on the socket it came
\* from: with the echo of the stored message, or with an error event.
C22_EveryEventAnswered ==
  \A t \in Tasks : task[t].pc = "done" =>
    \/ task[t].res = "error"
    \/ task[t].res = "sent" /\ t \in DOMAIN emitted /\ emitted[t][1].sock = task[t].sock

\* C23: a typing event from a registered socket is emitted once to each
\* connection the registry holds for payload.to, in the registry's order, with
\* the sender's user id and the flag of the payload; from a socket that is
\* not registered, or to a user without a connection, nothing is emitted; the
\* message store, the online flags and the registry stay as they were.
C23_TypingFanOut ==
  [][\A r \in Requests : (req[r].pc = "idle" /\ req'[r].kind = "typing") =>
       /\ messages' = messages /\ online' = online /\ connected' = connected
       /\ IF Registered(req'[r].sock) /\ Len(Get(req'[r].to)) > 0
          THEN /\ req'[r].user = token[req'[r].sock]
               /\ Len(req'[r].sent) = Len(Get(req'[r].to))
               /\ \A i \in 1..Len(req'[r].sent) : req'[r].sent[i].sock = Get(req'[r].to)[i].socketId
          ELSE req'[r].sent = <<>>]_vars

C23_Witness ==
  \E r \in Requests :
    /\ req[r].kind = "typing" /\ req[r].res = "typed" /\ req[r].flag
    /\ req[r].user = "u1" /\ req[r].to = "u2" /\ Len(req[r].sent) = 2
    /\ req[r].sent[1].sock # req[r].sent[2].sock

C25_MarkDeliveredTwice ==
  /\ [](\A i \in 1..Len(messages) :
          LET once == markDelivered(messages, {messages[i].id})
          IN /\ markDelivered(once, {messages[i].id}) = once
             /\ once[i].delivered
             /\ \A j \in 1..Len(messages) : j # i => once[j] = messages[j])
  /\ [][\A s \in Sockets :
          (conn[s].pc = "mark" /\ conn'[s].pc # "mark" /\ \A id \in Range(conn[s].batch) : Stored(id) /\ Doc(id).delivered) =>
            messages' = messages]_vars

C25_Witness ==
  \E s1, s2 \in Sockets :
    /\ s1 # s2
    /\ conn[s1].pc \in {"dels", "done"} /\ conn[s2].pc \in {"dels", "done"}
    /\ Len(conn[s1].batch) >= 2 /\ conn[s1].batch = conn[s2].batch
    /\ \E i \in 1..Len(messages) : ~messages[i].delivered

\* C26: whenever no connect or disconnect handler is in progress, the
\* registry entry of each user lists exactly the sockets of that user whose
\* transport is open, each once.
C26_RegistryIsOpenSockets ==
  (ConnBusy = {} /\ DiscBusy = {}) =>
    \A u \in Users :
      /\ {Get(u)[i].socketId : i \in 1..Len(Get(u))} = {s \in Sockets : token[s] = u /\ conn[s].open}
      /\ Len(Get(u)) = Cardinality({s \in Sockets : token[s] = u /\ conn[s].open})

\* C27: whenever no handler is in progress, the persisted online flag of each
\* user is true exactly when the registry holds a connection of that user.
C27_OnlineIffRegistered ==
  (ConnBusy = {} /\ DiscBusy = {} /\ ReqBusy = {} /\ TaskBusy = {}) =>
    \A u \in Users : online[u] <=> Len(Get(u)) > 0

\* C28: the step in which the fetch or the replay of the recent deletions
\* fails leaves the registry, the transport, the batch sent and the message
\* store as they were; a connection whose replay failed is registered and
\* open, and the messages of its batch are delivered.
C28_ReplayFailureSwallowed ==
  /\ [](\A s \in Sockets : conn[s].fail = "dels" =>
          /\ conn[s].pc = "done" /\ conn[s].open /\ Registered(s)
          /\ \A id \in Range(conn[s].batch) : Stored(id) => Doc(id).delivered)
  /\ [][\A s \in Sockets : (conn[s].pc = "dels" /\ conn'[s].fail = "dels") =>
          /\ connected' = connected /\ messages' = messages /\ disc' = disc /\ online' = online
          /\ conn'[s].open = conn[s].open /\ conn'[s].batch = conn[s].batch]_vars

C28_Witness ==
  \E s \in Sockets :
    /\ conn[s].fail = "dels" /\ conn[s].open /\ Registered(s)
    /\ Len(conn[s].batch) = 2
    /\ \A id \in Range(conn[s].batch) : Stored(id) /\ Doc(id).delivered

\* C29: a connection whose presence broadcast failed because listAll threw
\* is registered, its transport is open, and its handler goes on to the
\* flush of the pending messages.
C29_BroadcastFailureSwallowed ==
  \A s \in Sockets : conn[s].fail = "list" =>
    /\ Registered(s) /\ conn[s].open
    /\ conn[s].pc \in {"pend", "mark", "dels", "done"}

\* C30: every step of the handlers of typing, message, location, webview,
\* get:conversation, get:group:conversation, delete:message, userOnline,
\* userOffline and user:heartbeat leaves the registry as it was; the registry
\* changes only in steps of handleConnection and handleDisconnect.
C30_HandlersLeaveRegistry ==
  [][(Events \/ Handling \/ Answers \/ task' # task \/ req' # req) => connected' = connected]_vars

C30_Witness ==
  /\ \E t \in Tasks : task[t].pc = "done" /\ task[t].res = "sent" /\ task[t].p.groupId = GroupId
  /\ \E r \in Requests : req[r].kind = "status" /\ req[r].res = "set" /\ ~req[r].flag
  /\ DOMAIN connected = {"u1", "u2"}

\* C31: a step that sets a message's delivered flag is the mark of a dispatch
\* that emitted the message to a connection of its recipient whose transport
\* was open, or the mark of a flush of one of the recipient's connections
\* whose batch holds the message.
C31_DeliveredOnlyIfReached ==
  [][\A id \in MessageIds :
       (Stored(id) /\ ~Doc(id).delivered /\ (Stored(id) /\ Doc(id).delivered)') =>
         \/ /\ id \in DOMAIN emitted
            /\ \E j \in 1..Len(emitted[id]) : emitted[id][j].live /\ token[emitted[id][j].sock] = Doc(id).to
         \/ \E s \in Sockets : /\ conn[s].pc = "mark" /\ conn'[s].pc # "mark"
                                /\ token[s] = Doc(id).to /\ id \in Range(conn[s].batch)]_vars

\* C33: in the dispatch of one message, location or webview event no socket
\* is sent the 'message' event for it more than once.
C33_EmittedOncePerSocket ==
  \A t \in DOMAIN emitted : \A s \in Sockets : Times(emitted[t], s) <= 1

\* C32: no socket other than the sender's own is sent a message both as a
\* live 'message' event of its dispatch and inside the messages:pending batch
\* of its own connect.
C32_LiveOrPendingNotBoth ==
  \A t \in DOMAIN emitted : \A s \in Sockets :
    ~(task[t].sock # s /\ Times(emitted[t], s) >= 1 /\ t \in Range(conn[s].batch))

\* C34: the step that emits a messages:pending batch to an open socket emits
\* no message for which that socket has been sent message:deleted by a
\* delete:message handler.
C34_NoMessageAfterDeleted ==
  [][\A s \in Sockets :
       (conn[s].pc \in {"pend", "fetched"} /\ conn'[s].pc = "mark" /\ conn[s].open) =>
         \A id \in Range(conn'[s].batch) :
           ~\E r \in Requests : /\ req[r].res = "deleted" /\ req[r].id = id
                                /\ \E j \in 1..Len(req[r].sent) : req[r].sent[j].sock = s /\ req[r].sent[j].live]_vars

\* C35: a delete:message request that succeeded has sent message:deleted to
\* the requesting connection exactly once.
C35_RequesterToldOnce ==
  \A r \in Requests : (req[r].kind = "delete" /\ req[r].res = "deleted") => Times(req[r].sent, req[r].sock) = 1

\* C36: a message, location or webview event is saved only for a socket that
\* is registered, under that socket's registered user id and not under a
\* sender the payload names; an event from a socket that is not registered
\* stores nothing and emits no 'message' to any connection.
C36_FromIsRegisteredUser ==
  /\ [][\A t \in Tasks : \A s \in Sockets :
          (task[t].pc = "idle" /\ task'[t].pc # "idle" /\ task'[t].sock = s) =>
             IF Registered(s)
             THEN task'[t].pc = "save" => task'[t].from = FromUser(s)
             ELSE task'[t].pc = "done" /\ messages' = messages /\ emitted' = emitted]_vars
  /\ [](\A t \in Tasks : Stored(t) => Doc(t).from = task[t].from /\ task[t].from = token[task[t].sock])
  /\ [](\A t \in Tasks : (task[t].pc = "done" /\ task[t].from = Unused) => ~Stored(t) /\ t \notin DOMAIN emitted)

C36_Witness ==
  /\ \E t \in Tasks : /\ Stored(t) /\ "from" \in DOMAIN task[t].p /\ task[t].p.from = "u3"
                        /\ task[t].sock = 1 /\ Doc(t).from = "u1" /\ Times(emitted[t], 2) = 1
  /\ \E t \in Tasks : /\ task[t].pc = "done" /\ task[t].res \in {"error", "ignored"} /\ task[t].from = Unused
                        /\ "from" \in DOMAIN task[t].p /\ ~Stored(t)

\* C37: the conversation sent for a get:conversation request of a registered
\* socket holds only stored messages without a group that go from the
\* socket's user to the withUserId user or back and that the socket's user
\* has not deleted; a request from a socket that is not registered is sent
\* nothing.
C37_ConversationContents ==
  /\ [][\A r \in Requests : (req[r].pc = "conv" /\ req'[r].pc = "done") =>
          \A id \in Range(req'[r].reply) :
            /\ Stored(id) /\ Doc(id).groupId = NoGroup
            /\ \/ Doc(id).from = req[r].user /\ Doc(id).to = req[r].with
               \/ Doc(id).from = req[r].with /\ Doc(id).to = req[r].user
            /\ req[r].user \notin Doc(id).deletedBy]_vars
  /\ [][\A r \in Requests : \A s \in Sockets :
          (req[r].pc = "idle" /\ req'[r].kind = "conversation" /\ req'[r].sock = s) =>
             IF Registered(s) THEN req'[r].pc = "conv" /\ req'[r].user = FromUser(s)
             ELSE req'[r].pc = "done" /\ req'[r].sent = <<>> /\ req'[r].reply = <<>>]_vars
  /\ [](\A r \in Requests : (req[r].kind = "conversation" /\ req[r].res # "replied") => req[r].sent = <<>>)

C37_Witness ==
  /\ Stored(-5) /\ Doc(-5).deletedBy = {"u2"} /\ Stored(-2) /\ Stored(-1)
  /\ \E r \in Requests : /\ req[r].res = "replied" /\ req[r].sock = 2 /\ req[r].user = "u2" /\ req[r].with = "u1"
                           /\ req[r].reply = <<-4>> /\ Times(req[r].sent, 2) = 1

\* C38: in every reachable state no key of the registry maps to an empty list,
\* every connection stored under key u has userId u, and no socket id is in
\* the registry twice.
C38_RegistryWellFormed ==
  /\ \A u \in DOMAIN connected :
       /\ Len(connected[u]) > 0
       /\ \A i \in 1..Len(connected[u]) : connected[u][i].userId = u
  /\ \A u \in DOMAIN connected : \A v \in DOMAIN connected :
       \A i \in 1..Len(connected[u]) : \A j \in 1..Len(connected[v]) :
         connected[u][i].socketId = connected[v][j].socketId => u = v /\ i = j

\* u2's second client is alone in u2's entry after the first was spliced out,
\* and the client whose token names no user was turned away.
C38_Witness ==
  /\ DOMAIN connected = {"u2"} /\ connected["u2"] = <<SocketUser(2, "u2")>>
  /\ disc[1].pc = "done" /\ disc[1].user = "u2" /\ ~disc[1].last
  /\ conn[3].pc = "rejected"

\* C39: a userOnline or userOffline event whose socket is not registered, or
\* whose userId is not the user the socket is registered under, ends at once
\* with no setOnline call and no userStatusUpdate; the setOnline call of an
\* event that is taken changes the online flag of the socket's user alone.
C39_OwnStatusOnly ==
  /\ [][\A r \in Requests : \A s \in Sockets :
          (req[r].pc = "idle" /\ req'[r].kind = "status" /\ req'[r].sock = s) =>
             IF Registered(s) /\ FromUser(s) = req'[r].user
             THEN req'[r].pc = "status"
             ELSE req'[r].pc = "done" /\ req'[r].sent = <<>> /\ online' = online]_vars
  /\ [][\A r \in Requests : (req[r].pc = "status" /\ req'[r].pc = "done") =>
          /\ req[r].user = token[req[r].sock]
          /\ \A v \in Users : v # token[req[r].sock] => online'[v] = online[v]]_vars
  /\ [](\A r \in Requests : (req[r].kind = "status" /\ req[r].user # token[req[r].sock]) =>
           req[r].pc = "done" /\ req[r].res = "ignored" /\ req[r].sent = <<>>)

\* u1's client asked to set u2 offline and was ignored; u2's own client did
\* set u2 offline and the others were told.
C39_Witness ==
  /\ \E r \in Requests : /\ req[r].kind = "status" /\ req[r].sock = 1 /\ req[r].user = "u2" /\ ~req[r].flag
                           /\ req[r].res = "ignored"
  /\ \E r \in Requests : /\ req[r].kind = "status" /\ req[r].sock = 2 /\ req[r].user = "u2" /\ ~req[r].flag
                           /\ req[r].res = "set" /\ Times(req[r].sent, 1) = 1
  /\ Registered(1) /\ Registered(2) /\ ~online["u2"] /\ online["u1"]

\* C40: for a message event of any accepted type that was saved and emitted,
\* the type of the emitted 'message' payload is the type stored for the
\* message.
C40_EmittedTypeIsStoredType ==
  \A t \in Tasks :
    (task[t].p.kind = "message" /\ t \in DOMAIN emitted /\ Stored(t)) => EmittedType(task[t].p) = Doc(t).type

====
